---- MODULE Spec2Model ----
(***************************************************************************)
(* State-machine model of the HomeScreen component of src/app/index.tsx:   *)
(* the todos list, the fallback setTimeout table, the platform             *)
(* notification service, and the asynchronous scheduleReminder and         *)
(* clearReminder calls that are suspended at an await: in a queue while    *)
(* they wait for import('expo-notifications'), in a set while they wait    *)
(* for the platform.                                                       *)
(*                                                                         *)
(* Instants are small naturals (Date.now() is the variable now).  A task   *)
(* id is String(Date.now()); String is injective on numbers, so the id is  *)
(* kept as the number it was made from.  A title is a sequence of          *)
(* one-character strings so that trim() is computed, not assumed.          *)
(***************************************************************************)
EXTENDS Integers, Sequences, FiniteSets, TLC

\* ---- bounds of the model ----
MaxTime == 3        \* Date.now() goes up to MaxTime; targets up to MaxTime + 1
MaxTodos == 3       \* tasks in the list, where reminders are left alone
MaxArmable == 1     \* tasks in the list, where reminders are exercised
MaxInflight == 2    \* async calls suspended at an await at once
MaxTriggers == 2    \* timers, scheduled notifications and arms in flight
MaxEditable == 2    \* tasks in the list, where each operation is recorded
MaxWrites == 2      \* AsyncStorage.setItem calls under way at once

\* null / undefined of reminderTimestamp and notificationId (both are read
\* only through truthiness and "?? null"); real instants and handles are >= 1
Null == 0

\* NaN, the time value of an Invalid Date
NaN == -1

VARIABLES
  PlatformOS,        \* Platform.OS: "web" or "android"
  hasNotifications,  \* whether import('expo-notifications') succeeds
  permission,        \* the platform's permission status
  now,               \* Date.now()
  todos,             \* the todos state: a sequence of TodoItem
  webTimers,         \* webTimersRef.current: todo id -> timer handle
  timers,            \* setTimeout timers that are pending in the runtime
  scheduled,         \* notifications scheduled on the platform
  imported,          \* import('expo-notifications') has settled once
  importing,         \* async calls suspended at await getNotificationsModule()
  inflight,          \* async calls suspended at an await on the platform
  editingId,         \* editingId state (Null when not editing)
  editingText,       \* editingText state
  reminderDateText,  \* reminderDateText state: the picker's date input
  reminderTimeText,  \* reminderTimeText state: the picker's time input
  stored,            \* what storage holds under STORAGE_KEY
  writes,            \* AsyncStorage.setItem calls that are under way
  loaded,            \* the load effect has run
  alerted,           \* the message of the last Alert.alert ("none" at start)
  lastReq,           \* history: per task id, the user's last reminder request
  usedIds,           \* history: every id a task was ever created with
  reusedIds,         \* history: the ids given to more than one task
  lastOp,            \* history: the operation the user made last
  saved              \* history: the list the process before this one persisted

vars == << PlatformOS, hasNotifications, permission, now, todos, webTimers,
           timers, scheduled, imported, importing, inflight, editingId,
           editingText, reminderDateText, reminderTimeText, stored, writes,
           loaded, alerted, lastReq, usedIds, reusedIds, lastOp, saved >>

\* values of Date.now(), and so of the ids made from it
TaskIds == 1..MaxTime

\* targets a reminder can be set for
Targets == 1..(MaxTime + 1)

\* ---- titles ----
Space == " "

RECURSIVE trimStart(_)
trimStart(s) ==
  IF s = << >> THEN << >>
  ELSE IF Head(s) = Space THEN trimStart(Tail(s)) ELSE s

RECURSIVE trimEnd(_)
trimEnd(s) ==
  IF s = << >> THEN << >>
  ELSE IF s[Len(s)] = Space THEN trimEnd(SubSeq(s, 1, Len(s) - 1)) ELSE s

\* String.prototype.trim
trim(s) == trimEnd(trimStart(s))

\* ---- the TodoItem record and list helpers ----
TodoItem(id, title) ==
  [id |-> id, title |-> title, completed |-> FALSE,
   reminderTimestamp |-> Null, notificationId |-> Null]

Indices(list) == 1..Len(list)

IdsOf(list) == { list[i].id : i \in Indices(list) }

HasId(list, id) == \E i \in Indices(list) : list[i].id = id

\* todos.find((t) => t.id === todoId): the first match
find(list, id) ==
  list[CHOOSE i \in Indices(list) :
         /\ list[i].id = id
         /\ \A j \in Indices(list) : list[j].id = id => i <= j]

\* todo?.notificationId of the closure's snapshot
snapshotNotificationId(list, id) ==
  IF HasId(list, id) THEN find(list, id).notificationId ELSE Null

\* prev.map((t) => t.id === todoId
\*            ? { ...t, reminderTimestamp, notificationId } : t)
setReminderFields(list, id, ts, nid) ==
  [ i \in Indices(list) |->
      IF list[i].id = id
      THEN [list[i] EXCEPT !.reminderTimestamp = ts, !.notificationId = nid]
      ELSE list[i] ]

\* prev.filter((t) => t.id !== id)
removeId(list, id) == SelectSeq(list, LAMBDA t : t.id # id)

\* prev.filter((t) => !t.completed)
removeCompleted(list) == SelectSeq(list, LAMBDA t : ~t.completed)

\* ---- the reminder machinery ----
\* The part of the state that clearReminder and scheduleReminder act on is
\* passed around as a record R with fields todos, webTimers, timers,
\* importing, inflight.
Machine ==
  [todos |-> todos, webTimers |-> webTimers, timers |-> timers,
   importing |-> importing, inflight |-> inflight]

Commit(R) ==
  /\ todos' = R.todos
  /\ webTimers' = R.webTimers
  /\ timers' = R.timers
  /\ importing' = R.importing
  /\ inflight' = R.inflight

\* An async call suspended at an await.  Calls waiting for
\* import('expo-notifications') resume in the order they were made (the
\* queue importing); calls waiting for the platform (the set inflight)
\* resume in any order.
Request(kind, id, nid, date, snapNid, pc) ==
  [kind |-> kind, todoId |-> id, nid |-> nid, date |-> date,
   snapNid |-> snapNid, pc |-> pc]

Range(q) == { q[i] : i \in 1..Len(q) }

Suspended(q, S) == Range(q) \cup S

ArmsInFlight(S) == { p \in S : p.kind = "arm" }

RequestsFor(S, id) == { p \in S : p.todoId = id }

Smallest(S) == CHOOSE n \in S : \A m \in S : n <= m

\* the handle setTimeout returns: one that no pending timer and no table
\* entry carries
freshTimer(R) ==
  LET used == { t.tid : t \in R.timers }
                \cup { R.webTimers[i] : i \in DOMAIN R.webTimers }
  IN Smallest((1..(Cardinality(used) + 1)) \ used)

\* the identifier scheduleNotificationAsync returns: one that is not in use
freshNotificationId ==
  LET used == { n.nid : n \in scheduled }
                \cup { todos[i].notificationId : i \in Indices(todos) }
                \cup { p.nid : p \in Suspended(importing, inflight) }
                \cup { p.snapNid : p \in Suspended(importing, inflight) }
                \cup { t.snapNid : t \in timers }
                \cup { stored.list[i].notificationId :
                         i \in Indices(stored.list) }
  IN Smallest((1..(Cardinality(used) + 1)) \ used)

\* clearTimeout(webTimersRef.current[todoId]);
\* delete webTimersRef.current[todoId]
clearWebTimer(R, id) ==
  IF id \in DOMAIN R.webTimers
  THEN [R EXCEPT
          !.timers = { t \in R.timers : t.tid # R.webTimers[id] },
          !.webTimers = [ i \in DOMAIN R.webTimers \ {id} |-> R.webTimers[i] ]]
  ELSE R

\* (a clearReminder that forgets the handle field)
clearReminderTailKeepingHandle(R, id) ==
  LET R1 == clearWebTimer(R, id)
  IN [R1 EXCEPT !.todos =
        [ i \in Indices(R1.todos) |->
            IF R1.todos[i].id = id
            THEN [R1.todos[i] EXCEPT !.reminderTimestamp = Null]
            ELSE R1.todos[i] ]]

\* clearReminder from "取消 Web 定时器" on: the part after the awaits
clearReminderTail(R, id) ==
  LET R1 == clearWebTimer(R, id)
  IN [R1 EXCEPT !.todos = setReminderFields(R1.todos, id, Null, Null)]

\* clearReminder(todoId) up to its first await.  snap is the todos of the
\* render whose closure runs.  With a notificationId in the snapshot the
\* call suspends at await getNotificationsModule(); without one it runs to
\* its end synchronously.
\* (A call that would wait in the queue next to one with the same arguments
\* is not told apart from it.)
clearReminderWith(R, nid, id) ==
  LET p == Request("clear", id, nid, Null, Null, "module")
  IN IF nid # Null
     THEN IF p \in Range(R.importing) THEN R
          ELSE [R EXCEPT !.importing = Append(@, p)]
     ELSE clearReminderTail(R, id)

clearReminder(R, snap, id) ==
  clearReminderWith(R, snapshotNotificationId(snap, id), id)

\* prev.filter((t) => t.completed).forEach((t) => clearReminder(t.id))
RECURSIVE clearReminders(_, _, _)
clearReminders(R, snap, list) ==
  IF list = << >> THEN R
  ELSE clearReminders(clearReminder(R, snap, Head(list).id), snap, Tail(list))

\* setTimeout(() => { alert(...); clearReminder(todoId) }, delay) with
\* delay = Math.max(0, timestamp - Date.now()), stored in the table without
\* clearing what the table held.  snapNid is todo?.notificationId as the
\* callback's clearReminder closure sees it.
startWebTimer(R, id, timestamp, snapNid) ==
  LET tid == freshTimer(R)
      due == IF timestamp # NaN /\ timestamp > now THEN timestamp ELSE now
  IN [R EXCEPT
        !.timers = @ \cup {[tid |-> tid, todoId |-> id, due |-> due,
                            snapNid |-> snapNid]},
        !.webTimers = (id :> tid) @@ @]

\* scheduleReminder after await getNotificationsModule() on the fallback path
scheduleReminderFallback(R, p) ==
  LET R1 == startWebTimer(R, p.todoId, p.date, p.snapNid)
  IN [R1 EXCEPT !.todos = setReminderFields(R1.todos, p.todoId, p.date, Null)]

\* scheduleReminder after await scheduleNotificationAsync resolved with nid
scheduleReminderNative(R, p, nid) ==
  [R EXCEPT !.todos = setReminderFields(R.todos, p.todoId, p.date, nid)]

\* rescheduleWebReminders(list): stop every timer of the table, then on web
\* start one for each task whose reminderTimestamp is in the future.  The
\* callbacks close over the first render, whose todos is [].
RECURSIVE scheduleWebReminders(_, _)
scheduleWebReminders(R, list) ==
  IF list = << >> THEN R
  ELSE LET t == Head(list)
           R1 == IF t.reminderTimestamp # Null /\ t.reminderTimestamp > now
                 THEN startWebTimer(R, t.id, t.reminderTimestamp, Null)
                 ELSE R
       IN scheduleWebReminders(R1, Tail(list))

rescheduleWebReminders(R, list) ==
  LET held == { R.webTimers[i] : i \in DOMAIN R.webTimers }
      R1 == [R EXCEPT !.timers = { t \in R.timers : t.tid \notin held },
                      !.webTimers = [ i \in {} |-> Null ]]
  IN IF PlatformOS = "web" THEN scheduleWebReminders(R1, list) ELSE R1

\* ---- the environment and what storage can hold at process start ----
\* import('expo-notifications') resolves on web and on a device; a native
\* build without the module is the third case.
Envs == { <<"web", TRUE>>, <<"android", TRUE>>, <<"android", FALSE>> }

FallbackEnv(os, has) == os = "web" \/ ~has

\* A snapshot an earlier run of the same installation persisted: its task
\* was created at instant 1, before this run started (at instant 2).  Where
\* reminders go through the platform the snapshot carries the handle and the
\* platform still holds the notification.
SavedTask(ts, nid) ==
  [id |-> 1, title |-> <<"a">>, completed |-> FALSE,
   reminderTimestamp |-> ts, notificationId |-> nid]

\* An element of a stored array that is not a task: {} or a number, or, with
\* ts, { "reminderTimestamp": ts }.  It is kept as what the component reads
\* from it: a property it does not have reads undefined, which is Null where
\* a number or a handle is looked for, falsy in t.completed and nothing to
\* show in t.title.
Element(ts) ==
  [id |-> Null, title |-> << >>, completed |-> FALSE,
   reminderTimestamp |-> ts, notificationId |-> Null]

\* What storage holds under the key, by what the load effect makes of it:
\* "missing" is null, "empty" the text of no character, "unparseable" a text
\* JSON.parse throws on, "value" a JSON text that is no array, "array" an
\* array of tasks, "mixed" an array with an element that is no task.
SavedSnapshots(os, has) ==
  {[kind |-> "missing", list |-> << >>],
   [kind |-> "empty", list |-> << >>],
   [kind |-> "unparseable", list |-> << >>],
   [kind |-> "value", list |-> << >>],
   [kind |-> "mixed", list |-> <<Element(Null)>>],
   [kind |-> "mixed", list |-> <<Element(3)>>]}
  \cup (IF FallbackEnv(os, has)
        THEN {[kind |-> "array", list |-> <<SavedTask(3, Null)>>],
              [kind |-> "array", list |-> <<SavedTask(2, Null)>>],
              [kind |-> "mixed", list |-> <<SavedTask(3, Null), Element(Null)>>]}
        ELSE {[kind |-> "array", list |-> <<SavedTask(3, 1)>>],
              [kind |-> "mixed", list |-> <<SavedTask(3, 1), Element(Null)>>]})

\* JSON.parse(raw) returns and Array.isArray(parsed) holds
IsArray(raw) == raw.kind \in {"array", "mixed"}

SavedNotifications(snapshot) ==
  { [nid |-> snapshot.list[i].notificationId, todoId |-> snapshot.list[i].id,
     at |-> snapshot.list[i].reminderTimestamp] :
    i \in { j \in Indices(snapshot.list) :
             snapshot.list[j].notificationId # Null } }

NoRequest == [op |-> "none", at |-> Null, done |-> FALSE]

\* lastOp: which operation the user made last, and in which of its cases
NoOp == "none"

MountedAt(envs, kinds, instants) ==
  /\ \E e \in envs : PlatformOS = e[1] /\ hasNotifications = e[2]
  /\ permission \in (IF FallbackEnv(PlatformOS, hasNotifications)
                     THEN {"denied"} ELSE {"granted", "denied"})
  /\ now \in instants
  /\ todos = << >>
  /\ webTimers = [ i \in {} |-> Null ]
  /\ timers = {}
  /\ stored \in { x \in SavedSnapshots(PlatformOS, hasNotifications) :
                    x.kind \in kinds }
  /\ scheduled = SavedNotifications(stored)
  /\ imported = FALSE
  /\ importing = << >>
  /\ inflight = {}
  /\ editingId = Null
  /\ editingText = << >>
  /\ reminderDateText = << >>
  /\ reminderTimeText = << >>
  /\ loaded = FALSE
  /\ lastReq = [ i \in TaskIds |-> NoRequest ]
  /\ usedIds = IdsOf(stored.list)
  /\ reusedIds = {}
  /\ alerted = "none"
  /\ lastOp = NoOp
  /\ saved = [some |-> stored.kind = "array", list |-> stored.list]

\* the process starts at instant 2
Mounted(envs, kinds) == MountedAt(envs, kinds, {2})

\* (the writes to storage are followed in SpecPersist only)
InitWith(envs, kinds) == Mounted(envs, kinds) /\ writes = {}

Init == InitWith(Envs, {"missing", "array"})

env == << PlatformOS, hasNotifications >>
editing == << editingId, editingText >>
picker == << reminderDateText, reminderTimeText >>
machine == << todos, webTimers, timers, importing, inflight >>
history == << lastReq, usedIds, reusedIds, lastOp, saved >>
storage == << stored, writes >>

\* A user event or a timer callback is a task of the event loop; a call that
\* waits for import() of a module that has settled before resumes in a
\* microtask, ahead of any task.  Only while the first import() is under way
\* can tasks run with calls waiting in the queue.
Idle == importing = << >> \/ ~imported

\* ---- the load effect (mount) ----
Load ==
  /\ ~loaded
  /\ loaded' = TRUE
  /\ IF IsArray(stored)
     THEN Commit(rescheduleWebReminders(
                   [Machine EXCEPT !.todos = stored.list], stored.list))
     ELSE UNCHANGED machine
  /\ UNCHANGED << env, picker, alerted, imported, permission, now,
                  scheduled, editing >>

\* ---- the task store ----
\* (an add that puts the new task at the end of the list)
handleAddTodoAppending(draftTitle) ==
  LET trimmed == trim(draftTitle)
  IN /\ Idle
     /\ IF Len(trimmed) = 0
        THEN UNCHANGED todos
        ELSE todos' = todos \o <<TodoItem(now, trimmed)>>
     /\ UNCHANGED << env, picker, alerted, imported, permission, now,
                     webTimers, timers, scheduled, importing, inflight,
                     editing, loaded >>

\* (an add that takes a blank title as well)
handleAddTodoUnchecked(draftTitle) ==
  /\ Idle
  /\ todos' = <<TodoItem(now, trim(draftTitle))>> \o todos
  /\ UNCHANGED << env, picker, alerted, imported, permission, now,
                  webTimers, timers, scheduled, importing, inflight,
                  editing, loaded >>

handleAddTodo(draftTitle) ==
  LET trimmed == trim(draftTitle)
  IN /\ Idle
     /\ IF Len(trimmed) = 0
        THEN UNCHANGED todos
        ELSE todos' = <<TodoItem(now, trimmed)>> \o todos
     /\ UNCHANGED << env, picker, alerted, imported, permission, now,
                     webTimers, timers, scheduled, importing, inflight,
                     editing, loaded >>

\* handleDeleteTodo taking the first task off the list, whatever its id
handleDeleteTodoHead(id) ==
  /\ Idle
  /\ LET R == clearReminder(Machine, todos, id)
     IN Commit([R EXCEPT !.todos = IF HasId(R.todos, id)
                                   THEN Tail(R.todos) ELSE R.todos])
  /\ UNCHANGED << env, picker, alerted, imported, permission, now,
                  scheduled, editing, loaded >>

handleDeleteTodo(id) ==
  /\ Idle
  /\ LET R == clearReminder(Machine, todos, id)
     IN Commit([R EXCEPT !.todos = removeId(R.todos, id)])
  /\ UNCHANGED << env, picker, alerted, imported, permission, now,
                  scheduled, editing, loaded >>

\* toggleComplete that also drops the reminder fields of the task
toggleCompleteUnarming(id) ==
  /\ Idle
  /\ HasId(todos, id)
  /\ todos' = [ i \in Indices(todos) |->
                  IF todos[i].id = id
                  THEN [todos[i] EXCEPT !.completed = ~todos[i].completed,
                                        !.reminderTimestamp = Null,
                                        !.notificationId = Null]
                  ELSE todos[i] ]
  /\ UNCHANGED << env, picker, alerted, imported, permission, now,
                  webTimers, timers, scheduled, importing, inflight,
                  editing, loaded >>

toggleComplete(id) ==
  /\ Idle
  /\ HasId(todos, id)
  /\ todos' = [ i \in Indices(todos) |->
                  IF todos[i].id = id
                  THEN [todos[i] EXCEPT !.completed = ~todos[i].completed]
                  ELSE todos[i] ]
  /\ UNCHANGED << env, picker, alerted, imported, permission, now,
                  webTimers, timers, scheduled, importing, inflight,
                  editing, loaded >>

startEdit(i) ==
  /\ Idle
  /\ i \in Indices(todos)
  /\ editingId' = todos[i].id
  /\ editingText' = todos[i].title
  /\ UNCHANGED << env, picker, alerted, imported, permission, now, machine,
                  scheduled, loaded >>

\* onChangeText={setEditingText} of the row being edited
setEditingText(text) ==
  /\ Idle
  /\ editingId # Null
  /\ HasId(todos, editingId)
  /\ editingText' = text
  /\ UNCHANGED << env, picker, alerted, imported, permission, now, machine,
                  scheduled, editingId, loaded >>

\* saveEdit without its check of the trimmed text
saveEditUnchecked ==
  /\ Idle
  /\ editingId # Null
  /\ todos' = [ i \in Indices(todos) |->
                  IF todos[i].id = editingId
                  THEN [todos[i] EXCEPT !.title = trim(editingText)]
                  ELSE todos[i] ]
  /\ editingId' = Null
  /\ editingText' = << >>
  /\ UNCHANGED << env, picker, alerted, imported, permission, now,
                  webTimers, timers, scheduled, importing, inflight,
                  loaded >>

saveEdit ==
  /\ Idle
  /\ editingId # Null
  /\ LET trimmed == trim(editingText)
     IN IF Len(trimmed) = 0
        THEN UNCHANGED todos
        ELSE todos' = [ i \in Indices(todos) |->
                          IF todos[i].id = editingId
                          THEN [todos[i] EXCEPT !.title = trimmed]
                          ELSE todos[i] ]
  /\ editingId' = Null
  /\ editingText' = << >>
  /\ UNCHANGED << env, picker, alerted, imported, permission, now,
                  webTimers, timers, scheduled, importing, inflight,
                  loaded >>

cancelEdit ==
  /\ Idle
  /\ editingId # Null
  /\ editingId' = Null
  /\ editingText' = << >>
  /\ UNCHANGED << env, picker, alerted, imported, permission, now, machine,
                  scheduled, loaded >>

completeAll ==
  /\ Idle
  /\ todos' = [ i \in Indices(todos) |-> [todos[i] EXCEPT !.completed = TRUE] ]
  /\ UNCHANGED << env, picker, alerted, imported, permission, now,
                  webTimers, timers, scheduled, importing, inflight,
                  editing, loaded >>

\* deleteAll once the confirmation is given: setTodos([])
deleteAll ==
  /\ Idle
  /\ todos' = << >>
  /\ UNCHANGED << env, picker, alerted, imported, permission, now,
                  webTimers, timers, scheduled, importing, inflight,
                  editing, loaded >>

\* the updater returns prev without the completed tasks; the setTodos calls
\* that the clearReminder calls queue are applied after it
clearCompleted ==
  /\ Idle
  /\ Commit(clearReminders([Machine EXCEPT !.todos = removeCompleted(todos)],
                           todos, SelectSeq(todos, LAMBDA t : t.completed)))
  /\ UNCHANGED << env, picker, alerted, imported, permission, now,
                  scheduled, editing, loaded >>

\* ---- the reminder scheduler ----
\* The 设定 button: the target passed the "dt.getTime() <= Date.now()" check,
\* then scheduleReminder(reminderTargetId, dt) runs up to its first await:
\* clearReminder(todoId), not awaited, then await getNotificationsModule().
\* (Two suspended calls with the same arguments are not told apart, so the
\* second is not issued.)
scheduleReminder(id, date) ==
  /\ LET R == clearReminder(Machine, todos, id)
         p == Request("arm", id, Null, date,
                      snapshotNotificationId(todos, id), "module")
     IN /\ \A q \in Suspended(importing, inflight) :
             ~(q.kind = "arm" /\ q.todoId = id /\ q.date = date)
        /\ Commit([R EXCEPT !.importing = Append(@, p)])
  /\ UNCHANGED << env, picker, alerted, imported, permission, now, scheduled,
                  editing, loaded >>

SetReminder(id, date) ==
  /\ Idle
  /\ HasId(todos, id)
  /\ date > now
  /\ scheduleReminder(id, date)

\* The bell-slash button, rendered while item.reminderTimestamp is truthy:
\* clearReminder(item.id)
CancelReminder(id) ==
  /\ Idle
  /\ \E i \in Indices(todos) :
       todos[i].id = id /\ todos[i].reminderTimestamp # Null
  /\ Commit(clearReminder(Machine, todos, id))
  /\ UNCHANGED << env, picker, alerted, imported, permission, now,
                  scheduled, editing, loaded >>

\* ---- the reminder picker ----
\* The texts of the two inputs are sequences of characters.  Instant k of the
\* model is 2025-02-28 00:0k, Beijing time; the texts offered name instants
\* from 1 on and years of four digits.
Digit(c) ==
  CASE c = "0" -> 0 [] c = "1" -> 1 [] c = "2" -> 2 [] c = "3" -> 3
    [] c = "4" -> 4 [] c = "5" -> 5 [] c = "6" -> 6 [] c = "7" -> 7
    [] c = "8" -> 8 [] c = "9" -> 9 [] OTHER -> NaN

RECURSIVE digitsValue(_, _)
digitsValue(s, acc) ==
  IF s = << >> \/ Digit(Head(s)) = NaN THEN acc
  ELSE digitsValue(Tail(s), 10 * acc + Digit(Head(s)))

\* parseInt(v, 10) of a text without sign: the number its leading digits
\* spell, NaN when it does not start with a digit
parseInt(s) ==
  IF s = << >> \/ Digit(Head(s)) = NaN THEN NaN ELSE digitsValue(s, 0)

\* String.prototype.split(sep)
RECURSIVE split(_, _)
split(s, sep) ==
  IF \A k \in 1..Len(s) : s[k] # sep THEN << s >>
  ELSE LET k == CHOOSE i \in 1..Len(s) :
                  s[i] = sep /\ \A j \in 1..(i - 1) : s[j] # sep
       IN << SubSeq(s, 1, k - 1) >> \o split(SubSeq(s, k + 1, Len(s)), sep)

\* text.trim().split(sep).map((v) => parseInt(v, 10))
parts(text, sep) ==
  LET fields == split(trim(text), sep)
  IN [ k \in 1..Len(fields) |-> parseInt(fields[k]) ]

IsLeap(y) == (y % 4 = 0 /\ y % 100 # 0) \/ y % 400 = 0

DaysInMonth(y, m) ==
  CASE m = 2 -> IF IsLeap(y) THEN 29 ELSE 28
    [] m \in {4, 6, 9, 11} -> 30
    [] OTHER -> 31

RECURSIVE DaysBeforeMonth(_, _)
DaysBeforeMonth(y, m) ==
  IF m <= 1 THEN 0 ELSE DaysBeforeMonth(y, m - 1) + DaysInMonth(y, m - 1)

DayNumber(y, m, d) ==
  365 * (y - 1) + (y - 1) \div 4 - (y - 1) \div 100 + (y - 1) \div 400
    + DaysBeforeMonth(y, m) + d

\* the instant of y-m-d hh:mm, Beijing time (a day past the end of its month
\* counts on into the next month)
Instant(y, m, d, hh, mm) ==
  ((DayNumber(y, m, d) - DayNumber(2025, 2, 28)) * 24 + hh) * 60 + mm

\* The time values new Date(`${y}-${pad2(m)}-${pad2(d)}T${pad2(hh)}:${pad2(mm)}
\* :00+08:00`) can have.  A text with a field out of range gives an Invalid
\* Date.  Where the engine decides, it may be either: for a day of 29 to 31
\* that its month does not have (an Invalid Date, or the date counted on
\* into the next month), and for a year that String(y) does not write in
\* four digits, which is not of the ISO format (an Invalid Date, or the
\* date a lenient parser reads).
makeDateFromBeijingParts(y, m, d, hh, mm) ==
  IF \/ m \notin 1..12 \/ d \notin 1..31
     \/ hh \notin 0..24 \/ mm \notin 0..59 \/ (hh = 24 /\ mm # 0)
  THEN {NaN}
  ELSE IF d > DaysInMonth(y, m) \/ y \notin 1000..9999
       THEN {NaN, Instant(y, m, d, hh, mm)}
       ELSE {Instant(y, m, d, hh, mm)}

\* ---- civil time ----
\* String(n) of a natural number, as a sequence of characters
DigitChar(d) ==
  CASE d = 0 -> "0" [] d = 1 -> "1" [] d = 2 -> "2" [] d = 3 -> "3"
    [] d = 4 -> "4" [] d = 5 -> "5" [] d = 6 -> "6" [] d = 7 -> "7"
    [] d = 8 -> "8" [] d = 9 -> "9"

RECURSIVE String(_)
String(n) ==
  IF n < 10 THEN << DigitChar(n) >>
  ELSE String(n \div 10) \o << DigitChar(n % 10) >>

pad2(n) == IF n < 10 THEN <<"0">> \o String(n) ELSE String(n)

\* 8 * 60 * 60 * 1000 ms, in minutes
BeijingShift == 8 * 60

\* getUTCFullYear: the year whose first day is the last one not after day dn
YearFromDay(dn) ==
  LET y0 == (dn * 400) \div 146097 + 1
  IN CHOOSE y \in (y0 - 1)..(y0 + 1) :
       DayNumber(y, 1, 1) <= dn /\ dn < DayNumber(y + 1, 1, 1)

\* getUTCMonth() + 1 of the day that is the doy-th of year y
MonthFromDay(y, doy) ==
  CHOOSE m \in 1..12 :
    /\ DaysBeforeMonth(y, m) < doy
    /\ doy <= DaysBeforeMonth(y, m) + DaysInMonth(y, m)

\* (getBeijingParts without the shift of eight hours)
getBeijingPartsUnshifted(ts) ==
  LET utc == ts + 16 * 60
      dn == DayNumber(2025, 2, 27) + utc \div (24 * 60)
      y == YearFromDay(dn)
      doy == dn - DayNumber(y, 1, 1) + 1
      m == MonthFromDay(y, doy)
  IN [year |-> y, month |-> m, day |-> doy - DaysBeforeMonth(y, m),
      hour |-> (utc % (24 * 60)) \div 60, minute |-> utc % 60]

\* getBeijingParts(ts): the UTC fields of new Date(ts + 8 h).  Instant 0 is
\* 2025-02-27T16:00Z, so utc counts the minutes of the shifted time value
\* from 2025-02-27T00:00Z.
getBeijingParts(ts) ==
  LET utc == (ts + BeijingShift) + 16 * 60
      dn == DayNumber(2025, 2, 27) + utc \div (24 * 60)
      y == YearFromDay(dn)
      doy == dn - DayNumber(y, 1, 1) + 1
      m == MonthFromDay(y, doy)
  IN [year |-> y, month |-> m, day |-> doy - DaysBeforeMonth(y, m),
      hour |-> (utc % (24 * 60)) \div 60, minute |-> utc % 60]

\* `${y}-${pad2(m)}-${pad2(d)}`
formatDate(p) ==
  String(p.year) \o <<"-">> \o pad2(p.month) \o <<"-">> \o pad2(p.day)

\* The 提醒 button of a row: openReminderPicker(todoId).  The id the picker
\* is opened for is the id the 设定 button is pressed with (onPressSet).
\* today.setUTCDate(today.getUTCDate() + 1) gives the fields of the day
\* after.
openReminderPicker(id) ==
  LET p == getBeijingParts(now)
      nextMinute == IF p.minute <= 30 THEN 30 ELSE 0
      nextHour == IF p.minute > 30 THEN (p.hour + 1) % 24 ELSE p.hour
      shown == IF p.minute > 30 /\ p.hour = 23
               THEN getBeijingParts(now + 24 * 60) ELSE p
  IN /\ Idle
     /\ HasId(todos, id)
     /\ reminderDateText' = formatDate(shown)
     /\ reminderTimeText' = pad2(nextHour) \o <<":">> \o pad2(nextMinute)
     /\ UNCHANGED << env, alerted, imported, permission, now, machine,
                     scheduled, editing, loaded >>

\* (the button without its check of the target against Date.now())
onPressSetUnchecked(id, dateParts, timeParts) ==
     /\ Idle
     /\ HasId(todos, id)
     /\ IF \/ Len(dateParts) # 3 \/ Len(timeParts) # 2
           \/ \E k \in 1..Len(dateParts) : dateParts[k] = NaN
           \/ \E k \in 1..Len(timeParts) : timeParts[k] = NaN
        THEN /\ alerted' = "invalid"
             /\ UNCHANGED << env, picker, imported, permission, now, machine,
                             scheduled, editing, loaded >>
        ELSE \E dt \in makeDateFromBeijingParts(
                          dateParts[1], dateParts[2], dateParts[3],
                          timeParts[1], timeParts[2]) :
               scheduleReminder(id, dt)

\* The 设定 button of the picker opened for task id, dateParts and timeParts
\* being what the two texts parse to: the checks, then
\* scheduleReminder(reminderTargetId, dt) up to its first await.
\* NaN <= Date.now() is false.
onPressSet(id, dateParts, timeParts) ==
     /\ Idle
     /\ HasId(todos, id)
     /\ IF \/ Len(dateParts) # 3 \/ Len(timeParts) # 2
           \/ \E k \in 1..Len(dateParts) : dateParts[k] = NaN
           \/ \E k \in 1..Len(timeParts) : timeParts[k] = NaN
        THEN /\ alerted' = "invalid"
             /\ UNCHANGED << env, picker, imported, permission, now, machine,
                             scheduled, editing, loaded >>
        ELSE \E dt \in makeDateFromBeijingParts(
                          dateParts[1], dateParts[2], dateParts[3],
                          timeParts[1], timeParts[2]) :
               IF dt # NaN /\ dt <= now
               THEN /\ alerted' = "past"
                    /\ UNCHANGED << env, picker, imported, permission, now,
                                    machine, scheduled, editing, loaded >>
               ELSE scheduleReminder(id, dt)

Without(p) == [Machine EXCEPT !.inflight = @ \ {p}]

Moved(p, pc) ==
  [Machine EXCEPT !.inflight = (@ \ {p}) \cup {[p EXCEPT !.pc = pc]}]

\* the first call of the queue has resumed ...
Imported == [Machine EXCEPT !.importing = Tail(@)]

\* ... and waits for the platform
Calling(pc) ==
  [Machine EXCEPT !.importing = Tail(@),
                  !.inflight = @ \cup {[Head(importing) EXCEPT !.pc = pc]}]

\* scheduleReminder resumes from await getNotificationsModule()
ArmModule ==
  /\ importing # << >> /\ Head(importing).kind = "arm"
  /\ IF hasNotifications /\ PlatformOS # "web"
     THEN Commit(Calling("permission"))
     ELSE Commit(scheduleReminderFallback(Imported, Head(importing)))
  /\ imported' = TRUE
  /\ UNCHANGED << env, picker, alerted, permission, now, scheduled, editing,
                  loaded >>

\* (a refusal that falls back to the timer)
ArmPermissionFallingBack(p) ==
  /\ p \in inflight /\ p.kind = "arm" /\ p.pc = "permission"
  /\ \E status \in (IF permission = "granted"
                    THEN {"granted"} ELSE {"granted", "denied"}) :
       /\ permission' = status
       /\ IF status = "granted"
          THEN Commit(Moved(p, "schedule")) /\ UNCHANGED alerted
          ELSE /\ Commit(scheduleReminderFallback(Without(p), p))
               /\ alerted' = "permission"
  /\ UNCHANGED << env, picker, imported, now, scheduled, editing, loaded >>

\* scheduleReminder resumes from await ensurePermission(): the status is
\* granted, or the one permission request is answered either way
ArmPermission(p) ==
  /\ p \in inflight /\ p.kind = "arm" /\ p.pc = "permission"
  /\ \E status \in (IF permission = "granted"
                    THEN {"granted"} ELSE {"granted", "denied"}) :
       /\ permission' = status
       /\ IF status = "granted"
          THEN Commit(Moved(p, "schedule")) /\ UNCHANGED alerted
          ELSE Commit(Without(p)) /\ alerted' = "permission"
  /\ UNCHANGED << env, picker, imported, now, scheduled, editing, loaded >>

\* the platform schedules the notification and scheduleReminder resumes
\* from await scheduleNotificationAsync with its identifier
ArmScheduled(p) ==
  /\ p \in inflight /\ p.kind = "arm" /\ p.pc = "schedule"
  /\ LET nid == freshNotificationId
     IN /\ scheduled' = scheduled \cup
                          {[nid |-> nid, todoId |-> p.todoId, at |-> p.date]}
        /\ Commit(scheduleReminderNative(Without(p), p, nid))
  /\ UNCHANGED << env, picker, alerted, imported, permission, now, editing,
                  loaded >>

\* what the platform does with a trigger whose date is an Invalid Date is
\* not known: it may schedule it (ArmScheduled) or reject the call, and then
\* scheduleReminder ends there
ArmRejected(p) ==
  /\ p \in inflight /\ p.kind = "arm" /\ p.pc = "schedule"
  /\ p.date = NaN
  /\ Commit(Without(p))
  /\ UNCHANGED << env, picker, alerted, imported, permission, now, scheduled,
                  editing, loaded >>

\* The platform call scheduleReminder waits for throws or rejects:
\* getPermissionsAsync or requestPermissionsAsync inside ensurePermission,
\* or scheduleNotificationAsync.  Neither function has a try around the
\* await, so the rejection ends scheduleReminder, and the button's handler
\* does not wait for the call.
ArmFails(p) ==
  /\ p \in inflight /\ p.kind = "arm"
  /\ p.pc \in {"permission", "schedule"}
  /\ Commit(Without(p))
  /\ UNCHANGED << env, picker, alerted, imported, permission, now, scheduled,
                  editing, loaded >>

\* clearReminder resumes from await getNotificationsModule()
ClearModule ==
  /\ importing # << >> /\ Head(importing).kind = "clear"
  /\ IF hasNotifications
     THEN Commit(Calling("cancel"))
     ELSE Commit(clearReminderTail(Imported, Head(importing).todoId))
  /\ imported' = TRUE
  /\ UNCHANGED << env, picker, alerted, permission, now, scheduled, editing,
                  loaded >>

\* the platform cancels the notification (an unknown handle is an error that
\* is swallowed) and clearReminder resumes from the await
ClearCancelled(p) ==
  /\ p \in inflight /\ p.kind = "clear" /\ p.pc = "cancel"
  /\ scheduled' = { n \in scheduled : n.nid # p.nid }
  /\ Commit(clearReminderTail(Without(p), p.todoId))
  /\ UNCHANGED << env, picker, alerted, imported, permission, now, editing,
                  loaded >>

\* a setTimeout callback runs: alert(...), then clearReminder(todoId) of the
\* render that created the timer
TimerFires(t) ==
  /\ Idle
  /\ t \in timers
  /\ now >= t.due
  /\ Commit(clearReminderWith([Machine EXCEPT !.timers = @ \ {t}],
                              t.snapNid, t.todoId))
  /\ UNCHANGED << env, picker, alerted, imported, permission, now,
                  scheduled, editing, loaded >>

\* the platform delivers a scheduled notification; no code of the component
\* runs
NotificationFires(n) ==
  /\ n \in scheduled
  /\ now >= n.at
  /\ scheduled' = scheduled \ {n}
  /\ UNCHANGED << env, picker, alerted, imported, permission, now, machine,
                  editing, loaded >>

\* time passes
Tick ==
  /\ now < MaxTime
  /\ now' = now + 1
  /\ UNCHANGED << env, picker, alerted, imported, permission, machine,
                  scheduled, editing, loaded >>

\* ---- inputs ----
Drafts == { << >>, <<" ">>, <<"a">>, <<" ", "b", " ">> }

\* what the user types into the row under edit
EditTexts == { <<" ">>, <<"c", " ">> }

\* what keeps the state space finite, on the state a step leads to
Bounded(maxTodos, maxInflight, maxTriggers) ==
  /\ Len(todos') <= maxTodos
  /\ Len(importing') + Cardinality(inflight') <= maxInflight
  /\ Cardinality(timers') + Cardinality(scheduled')
       + Cardinality(ArmsInFlight(Suspended(importing', inflight')))
       <= maxTriggers

\* ---- the component with its reminders, requests overlapping ----
Quiet == Bounded(MaxArmable, MaxInflight, MaxTriggers)
           /\ UNCHANGED << history, storage >>

Next ==
  \/ Load /\ Quiet
  \/ \E d \in { <<" ">>, <<"a">> } : handleAddTodo(d) /\ Quiet
  \/ \E id \in IdsOf(todos) : handleDeleteTodo(id) /\ Quiet
  \/ \E id \in TaskIds : toggleComplete(id) /\ Quiet
  \/ \E i \in 1..MaxArmable : startEdit(i) /\ Quiet
  \/ \E text \in { <<"c", " ">> } : setEditingText(text) /\ Quiet
  \/ saveEdit /\ Quiet
  \/ cancelEdit /\ Quiet
  \/ completeAll /\ Quiet
  \/ deleteAll /\ Quiet
  \/ clearCompleted /\ Quiet
  \/ \E id \in TaskIds, date \in Targets : SetReminder(id, date) /\ Quiet
  \/ \E id \in TaskIds : CancelReminder(id) /\ Quiet
  \/ ArmModule /\ Quiet
  \/ \E p \in inflight : ArmPermission(p) /\ Quiet
  \/ \E p \in inflight : ArmScheduled(p) /\ Quiet
  \/ ClearModule /\ Quiet
  \/ \E p \in inflight : ClearCancelled(p) /\ Quiet
  \/ \E t \in timers : TimerFires(t) /\ Quiet
  \/ \E n \in scheduled : NotificationFires(n) /\ Quiet
  \/ Tick /\ Quiet

Spec == Init /\ [][Next]_vars

\* ---- a fresh installation, with the last request per task recorded ----
\* lastReq[id] is the request the user made last on task id: arm(at) or
\* cancel, and whether the call it started has run to its end.  It is a
\* record of what happened; no action of the component reads it.
forget(ids) == [ i \in TaskIds |-> IF i \in ids THEN NoRequest ELSE lastReq[i] ]

armIssued(id, date) ==
  [lastReq EXCEPT ![id] = [op |-> "arm", at |-> date, done |-> FALSE]]

\* a scheduleReminder call ran to its end: it answers the last request if
\* that asked for the same instant
armLanded(p) ==
  IF lastReq[p.todoId].op = "arm" /\ lastReq[p.todoId].at = p.date
  THEN [lastReq EXCEPT ![p.todoId].done = TRUE]
  ELSE lastReq

\* a scheduleReminder call gave up (permission refused)
armAborted(p) ==
  IF lastReq[p.todoId].op = "arm" /\ lastReq[p.todoId].at = p.date
  THEN forget({p.todoId})
  ELSE lastReq

\* the cancel button: "at" records whether a scheduleReminder call of the
\* task was suspended when it was pressed (1) or not (Null)
cancelIssued(id) ==
  [lastReq EXCEPT ![id] =
     [op |-> "cancel",
      at |-> IF ArmsInFlight(RequestsFor(Suspended(importing, inflight),
                                         id)) # {}
             THEN 1 ELSE Null,
      done |-> snapshotNotificationId(todos, id) = Null]]

\* a clearReminder call ran to its end
cancelLanded(p) ==
  IF lastReq[p.todoId].op = "cancel"
  THEN [lastReq EXCEPT ![p.todoId].done = TRUE]
  ELSE lastReq

Fresh == InitWith(Envs, {"missing"})

Within == Bounded(MaxArmable, MaxInflight, MaxTriggers)
            /\ UNCHANGED << usedIds, reusedIds, lastOp, saved, storage >>

NextRequests ==
  \/ Load /\ Within /\ UNCHANGED lastReq
  \/ \E d \in { <<"a">> } : handleAddTodo(d) /\ Within /\ UNCHANGED lastReq
  \/ \E id \in IdsOf(todos) :
       handleDeleteTodo(id) /\ Within /\ lastReq' = forget({id})
  \/ \E id \in TaskIds, date \in Targets :
       SetReminder(id, date) /\ Within /\ lastReq' = armIssued(id, date)
  \/ \E id \in TaskIds :
       CancelReminder(id) /\ Within /\ lastReq' = cancelIssued(id)
  \/ ArmModule /\ Within
       /\ lastReq' = IF hasNotifications /\ PlatformOS # "web"
                     THEN lastReq ELSE armLanded(Head(importing))
  \/ \E p \in inflight :
       ArmPermission(p) /\ Within
         /\ lastReq' = IF permission' = "granted"
                       THEN lastReq ELSE armAborted(p)
  \/ \E p \in inflight : ArmScheduled(p) /\ Within /\ lastReq' = armLanded(p)
  \/ ClearModule /\ Within
       /\ lastReq' = IF hasNotifications
                     THEN lastReq ELSE cancelLanded(Head(importing))
  \/ \E p \in inflight :
       ClearCancelled(p) /\ Within /\ lastReq' = cancelLanded(p)
  \/ \E t \in timers :
       TimerFires(t) /\ Within /\ lastReq' = forget({t.todoId})
  \/ \E n \in scheduled :
       NotificationFires(n) /\ Within /\ lastReq' = forget({n.todoId})
  \/ Tick /\ Within /\ UNCHANGED lastReq

SpecRequests == Fresh /\ [][NextRequests]_vars

\* ---- the task store, with the ids given out recorded ----
\* usedIds holds every id a task was created with (in this run or in the run
\* that wrote the snapshot); reusedIds holds the ids given to a task when an
\* earlier task had been created with them.  No action of the component reads
\* them.
Recorded(draftTitle) ==
  LET created == Len(trim(draftTitle)) > 0
  IN /\ usedIds' = IF created THEN usedIds \cup {now} ELSE usedIds
     /\ reusedIds' = IF created /\ now \in usedIds
                     THEN reusedIds \cup {now} ELSE reusedIds
     /\ UNCHANGED << lastReq, lastOp, saved, storage >>

Stored == Bounded(MaxTodos, MaxInflight, MaxTriggers)
            /\ UNCHANGED << history, storage >>

StoreInit == InitWith({ <<"web", TRUE>> }, {"missing", "array"})

NextStore ==
  \/ Load /\ Stored
  \/ \E d \in Drafts :
       handleAddTodo(d) /\ Bounded(MaxTodos, MaxInflight, MaxTriggers)
         /\ Recorded(d)
  \/ \E id \in IdsOf(todos) : handleDeleteTodo(id) /\ Stored
  \/ \E id \in TaskIds : toggleComplete(id) /\ Stored
  \/ completeAll /\ Stored
  \/ deleteAll /\ Stored
  \/ clearCompleted /\ Stored
  \/ Tick /\ Stored

SpecStore == StoreInit /\ [][NextStore]_vars

\* ---- the task store, with the last operation recorded ----
\* The list starts empty or is loaded from a snapshot whose task may carry a
\* reminder; lastOp says which operation the last step was.
TitlesOf(list, id) ==
  { list[i].title : i \in { j \in Indices(list) : list[j].id = id } }

\* a text of no character, or of spaces only
Blank(text) == \A k \in 1..Len(text) : text[k] = Space

Done(op, maxTodos) ==
  /\ Bounded(maxTodos, MaxInflight, MaxTriggers)
  /\ lastOp' = op
  /\ UNCHANGED << lastReq, usedIds, reusedIds, saved, storage >>

OpsInit ==
  /\ InitWith({ <<"web", TRUE>>, <<"android", TRUE>> }, {"missing", "array"})
  /\ FallbackEnv(PlatformOS, hasNotifications) \/ permission = "granted"

\* what the user types into the input: nothing, a space, a title in spaces
OpsDrafts == { << >>, <<" ">>, <<" ", "b", " ">> }

NextOps ==
  \/ Load /\ Done("other", MaxTodos)
  \/ \E d \in OpsDrafts :
       handleAddTodo(d) /\ Done(IF Blank(d) THEN "addBlank" ELSE "add", MaxTodos)
  \/ \E id \in TaskIds :
       handleDeleteTodo(id)
         /\ Done(IF HasId(todos, id) THEN "remove" ELSE "removeAbsent", MaxTodos)
  \/ \E id \in TaskIds : toggleComplete(id) /\ Done("toggle", MaxTodos)
  \/ completeAll /\ Done("other", MaxTodos)
  \/ deleteAll /\ Done("other", MaxTodos)
  \/ clearCompleted /\ Done("other", MaxTodos)
  \/ ClearModule /\ Done("other", MaxTodos)
  \/ \E p \in inflight : ClearCancelled(p) /\ Done("other", MaxTodos)
  \/ Tick /\ Done("other", MaxTodos)

SpecOps == OpsInit /\ [][NextOps]_vars

\* ---- the task store, with the edit of a title ----
NextEdits ==
  \/ Load /\ Done("other", MaxEditable)
  \/ \E d \in { <<"b">> } : handleAddTodo(d) /\ Done("add", MaxEditable)
  \/ \E id \in IdsOf(todos) : handleDeleteTodo(id) /\ Done("remove", MaxEditable)
  \/ \E id \in IdsOf(todos) : toggleComplete(id) /\ Done("toggle", MaxEditable)
  \/ \E i \in 1..MaxEditable : startEdit(i) /\ Done("other", MaxEditable)
  \/ \E text \in EditTexts : setEditingText(text) /\ Done("other", MaxEditable)
  \/ saveEdit
       /\ Done(IF Blank(editingText) THEN "saveEditBlank" ELSE "saveEdit", MaxEditable)
  \/ cancelEdit /\ Done("other", MaxEditable)
  \/ ClearModule /\ Done("other", MaxEditable)
  \/ \E p \in inflight : ClearCancelled(p) /\ Done("other", MaxEditable)
  \/ Tick /\ Done("other", MaxEditable)

SpecEdits == OpsInit /\ [][NextEdits]_vars

\* ---- the reminder picker and the scheduler ----
\* what the user leaves in the date input: 2025-02-28, 2025-02-30, 2025-13-01, 2025-02-xx
DateTexts ==
  { << "2", "0", "2", "5", "-", "0", "2", "-", "2", "8" >>,
    << "2", "0", "2", "5", "-", "0", "2", "-", "3", "0" >>,
    << "2", "0", "2", "5", "-", "1", "3", "-", "0", "1" >>,
    << "2", "0", "2", "5", "-", "0", "2", "-", "x", "x" >> }

\* and in the time input: 00:01, 00:03, 25:00, 0003
TimeTexts ==
  { << "0", "0", ":", "0", "1" >>,
    << "0", "0", ":", "0", "3" >>,
    << "2", "5", ":", "0", "0" >>,
    << "0", "0", "0", "3" >> }

\* what the texts parse to
DateParts == [ text \in DateTexts |-> parts(text, "-") ]

TimeParts == [ text \in TimeTexts |-> parts(text, ":") ]

\* a text of digits
IsInteger(field) ==
  field # << >> /\ \A k \in 1..Len(field) : Digit(field[k]) # NaN

\* the two texts are five integers that name a day of the calendar and a
\* time of the clock
RealDateTime(dateText, timeText) ==
  LET df == split(trim(dateText), "-")
      tf == split(trim(timeText), ":")
  IN /\ Len(df) = 3 /\ Len(tf) = 2
     /\ \A k \in 1..3 : IsInteger(df[k])
     /\ \A k \in 1..2 : IsInteger(tf[k])
     /\ parseInt(df[2]) \in 1..12
     /\ parseInt(df[3]) \in 1..DaysInMonth(parseInt(df[1]), parseInt(df[2]))
     /\ parseInt(tf[1]) \in 0..23
     /\ parseInt(tf[2]) \in 0..59

\* the texts offered that are
RealTexts ==
  { x \in DateTexts \X TimeTexts : RealDateTime(x[1], x[2]) }

\* the instant two such texts name
TargetOf ==
  [ x \in RealTexts |->
      Instant(DateParts[x[1]][1], DateParts[x[1]][2], DateParts[x[1]][3],
              TimeParts[x[2]][1], TimeParts[x[2]][2]) ]

PickerInit ==
  InitWith({ <<"web", TRUE>>, <<"android", TRUE>> }, {"missing", "array"})

NextPicker ==
  \/ Load /\ Done("other", MaxArmable)
  \/ \E d \in { <<"b">> } : handleAddTodo(d) /\ Done("other", MaxArmable)
  \/ \E id \in TaskIds, dateText \in DateTexts, timeText \in TimeTexts :
       onPressSet(id, DateParts[dateText], TimeParts[timeText])
         /\ Done(IF /\ <<dateText, timeText>> \in RealTexts
                    /\ TargetOf[<<dateText, timeText>>] <= now
                 THEN "setPast" ELSE "other", MaxArmable)
  \/ ArmModule /\ Done("other", MaxArmable)
  \/ \E p \in inflight : ArmPermission(p) /\ Done("other", MaxArmable)
  \/ \E p \in inflight : ArmScheduled(p) /\ Done("other", MaxArmable)
  \/ \E p \in inflight : ArmRejected(p) /\ Done("other", MaxArmable)
  \/ ClearModule /\ Done("other", MaxArmable)
  \/ \E p \in inflight : ClearCancelled(p) /\ Done("other", MaxArmable)
  \/ \E t \in timers : TimerFires(t) /\ Done("other", MaxArmable)
  \/ \E n \in scheduled : NotificationFires(n) /\ Done("other", MaxArmable)
  \/ Tick /\ Done("other", MaxArmable)

SpecPicker == PickerInit /\ [][NextPicker]_vars

\* ---- the task store with its persistence ----
\* JSON.stringify of a number: NaN becomes null
jsonNumber(x) == IF x = NaN THEN Null ELSE x

\* what JSON.parse makes of the payload the persist effect makes of list:
\* the five fields of each task, "?? null" applied to the last two
serialized(list) ==
  [ i \in Indices(list) |->
      [id |-> list[i].id, title |-> list[i].title,
       completed |-> list[i].completed,
       reminderTimestamp |-> jsonNumber(list[i].reminderTimestamp),
       notificationId |-> list[i].notificationId] ]

Snapshot(list) == [kind |-> "array", list |-> serialized(list)]

\* The persist effect, which runs after the render that follows a setTodos
\* call (called), and storageSetItem: on web localStorage.setItem is done
\* when the effect returns; elsewhere setItem is called after an await and
\* is not awaited, so the call is under way.
persistEffect(called) ==
  IF called
  THEN IF PlatformOS = "web"
       THEN stored' = Snapshot(todos') /\ UNCHANGED writes
       ELSE writes' = writes \cup {Snapshot(todos')} /\ UNCHANGED stored
  ELSE UNCHANGED storage

\* an AsyncStorage.setItem call completes; the calls under way complete in
\* any order
WriteLands(w) ==
  /\ w \in writes
  /\ stored' = w
  /\ writes' = writes \ {w}
  /\ UNCHANGED << env, picker, alerted, imported, permission, now, machine,
                  scheduled, editing, loaded >>

\* the write of the first render's empty list, where it is not done at once
MountWrites ==
  IF PlatformOS = "web" THEN {} ELSE {Snapshot(<< >>)}

\* The process ends with its list persisted and a new one starts: what the
\* component held is gone, storage and the platform's notifications stay.
Restart ==
  /\ loaded
  /\ writes = {} /\ stored = Snapshot(todos)
  /\ importing = << >> /\ inflight = {}
  /\ todos' = << >>
  /\ webTimers' = [ i \in {} |-> Null ]
  /\ timers' = {}
  /\ importing' = << >>
  /\ inflight' = {}
  /\ imported' = FALSE
  /\ editingId' = Null
  /\ editingText' = << >>
  /\ loaded' = FALSE
  /\ reminderDateText' = << >>
  /\ reminderTimeText' = << >>
  /\ alerted' = "none"
  /\ writes' = MountWrites
  /\ UNCHANGED << env, permission, now, scheduled, stored >>

\* on web the load effect has its value before any event is handled
Started == PlatformOS = "web" => loaded

Persisted(called) ==
  /\ Bounded(MaxEditable, MaxInflight, MaxTriggers)
  /\ persistEffect(called)
  /\ Cardinality(writes') <= MaxWrites
  /\ UNCHANGED << lastReq, usedIds, reusedIds, saved >>

PersistInit ==
  /\ Mounted({ <<"web", TRUE>>, <<"android", TRUE>> }, {"missing", "array"})
  /\ FallbackEnv(PlatformOS, hasNotifications) \/ permission = "granted"
  /\ writes = MountWrites

\* lastOp stays "none", or "restart", until the user does something in the
\* process
NextPersist ==
  \/ Load /\ Persisted(PlatformOS = "web" \/ IsArray(stored))
       /\ UNCHANGED lastOp
  \/ \E d \in { <<"b">> } :
       handleAddTodo(d) /\ Started /\ Persisted(TRUE) /\ lastOp' = "other"
  \/ \E id \in IdsOf(todos) :
       toggleComplete(id) /\ Started /\ Persisted(TRUE) /\ lastOp' = "other"
  \/ deleteAll /\ Started /\ Persisted(TRUE) /\ lastOp' = "other"
  \/ \E w \in writes :
       WriteLands(w) /\ UNCHANGED << lastReq, usedIds, reusedIds, lastOp, saved >>
  \/ Restart /\ lastOp' = "restart"
       /\ saved' = [some |-> TRUE, list |-> todos]
       /\ UNCHANGED << lastReq, usedIds, reusedIds >>
  \/ Tick /\ Started /\ Persisted(FALSE) /\ UNCHANGED lastOp

SpecPersist == PersistInit /\ [][NextPersist]_vars

\* ---- process start: the load of what storage holds ----
\* Storage holds any of the values of SavedSnapshots; the process starts at
\* instant 2 or, after a Tick, 3.
LoadKinds == {"missing", "empty", "unparseable", "value", "array", "mixed"}

LoadInit ==
  /\ InitWith(Envs, LoadKinds)
  /\ FallbackEnv(PlatformOS, hasNotifications) \/ permission = "granted"

NextLoad ==
  \/ Load /\ Done("other", MaxTodos)
  \/ \E d \in { <<"b">> } :
       handleAddTodo(d) /\ Started /\ Done("other", MaxTodos)
  \/ \E t \in timers : TimerFires(t) /\ Done("other", MaxTodos)
  \/ Tick /\ Done("other", MaxTodos)

SpecLoad == LoadInit /\ [][NextLoad]_vars

\* ---- reminders on a platform whose notification calls can fail ----
FailingInit == InitWith({ <<"android", TRUE>> }, {"missing", "array"})

NextFailing ==
  \/ Load /\ Done("other", MaxArmable)
  \/ \E d \in { <<"b">> } : handleAddTodo(d) /\ Done("other", MaxArmable)
  \/ \E id \in TaskIds, date \in Targets :
       SetReminder(id, date) /\ Done("other", MaxArmable)
  \/ \E id \in TaskIds : CancelReminder(id) /\ Done("other", MaxArmable)
  \/ ArmModule /\ Done("other", MaxArmable)
  \/ \E p \in inflight : ArmPermission(p) /\ Done("other", MaxArmable)
  \/ \E p \in inflight : ArmScheduled(p) /\ Done("other", MaxArmable)
  \/ \E p \in inflight : ArmFails(p) /\ Done("other", MaxArmable)
  \/ ClearModule /\ Done("other", MaxArmable)
  \/ \E p \in inflight : ClearCancelled(p) /\ Done("other", MaxArmable)
  \/ \E n \in scheduled : NotificationFires(n) /\ Done("other", MaxArmable)
  \/ Tick /\ Done("other", MaxArmable)

SpecFailing == FailingInit /\ [][NextFailing]_vars

\* ---- the clock and the reminder picker ----
\* The process starts at any minute of 2025-02-28, or in the last hour of a
\* day that ends a month or a year, or next to the first day of year 1000.
Minutes(y, m, d, hours) ==
  { Instant(y, m, d, hh, mm) : hh \in hours, mm \in 0..59 }

ClockInstants ==
  Minutes(2025, 2, 28, 0..23)
    \cup Minutes(2024, 2, 28, {23}) \cup Minutes(2024, 2, 29, {23})
    \cup Minutes(2025, 12, 31, {23})
    \cup Minutes(999, 12, 31, {23}) \cup Minutes(1000, 1, 1, {0})

ClockInit ==
  /\ MountedAt({ <<"web", TRUE>>, <<"android", TRUE>> }, {"array"},
               ClockInstants)
  /\ FallbackEnv(PlatformOS, hasNotifications) \/ permission = "granted"
  /\ writes = {}

NextClock ==
  \/ Load /\ Done("other", MaxArmable)
  \/ \E id \in IdsOf(todos) :
       openReminderPicker(id) /\ Done("open", MaxArmable)

SpecClock == ClockInit /\ [][NextClock]_vars

\* the instant a date text and a time text name, read as Beijing time
ReadCivil(date, time) ==
  LET dp == parts(date, "-")
      tp == parts(time, ":")
  IN Instant(dp[1], dp[2], dp[3], tp[1], tp[2])

\* the earliest instant after t whose minute is 00 or 30
NextHalfHour(t) == (t \div 30 + 1) * 30

\* ---- reminders: what is armed for a task ----
TimersFor(id) == { t \in timers : t.todoId = id }

\* a cancelScheduledNotificationAsync for the notification is under way
BeingCancelled(n) ==
  \E p \in Suspended(importing, inflight) : p.kind = "clear" /\ p.nid = n.nid

\* the scheduled notifications of a task that nothing is cancelling
NotificationsFor(id) ==
  { n \in scheduled : n.todoId = id /\ ~BeingCancelled(n) }

Unarmed(list, id) ==
  \A i \in Indices(list) :
    list[i].id = id =>
      list[i].reminderTimestamp = Null /\ list[i].notificationId = Null

\* any timer of the task and any notification the platform still holds for it
Pending(id) == TimersFor(id) \cup { n \in scheduled : n.todoId = id }

Settled(id) == RequestsFor(Suspended(importing, inflight), id) = {}

Spaces(n) == [ i \in 1..n |-> Space ]

\* title is draft without the spaces at its two ends
TrimmedFrom(title, draft) ==
  /\ title # << >>
  /\ Head(title) # Space
  /\ title[Len(title)] # Space
  /\ \E a, b \in 0..Len(draft) :
       draft = Spaces(a) \o title \o Spaces(b)

\* C1: once deleteAll is confirmed the list is empty and no reminder of a
\* task that was in the list stays armed: no timer of it is pending and every
\* notification of it is cancelled or being cancelled.
C1_DeleteAllCancelsReminders ==
  [][ deleteAll =>
        /\ todos' = << >>
        /\ \A id \in IdsOf(todos) :
             /\ { t \in timers' : t.todoId = id } = {}
             /\ \A n \in scheduled' :
                  n.todoId = id =>
                    \E p \in Suspended(importing', inflight') :
                      p.kind = "clear" /\ p.nid = n.nid ]_vars

\* C2: once the saved list is loaded, no pending timer and no scheduled
\* notification (other than one being cancelled) belongs to a task id that is
\* not in the list.
C2_NoTriggerForRemovedTask ==
  loaded =>
    /\ \A t \in timers : HasId(todos, t.todoId)
    /\ \A n \in scheduled : HasId(todos, n.todoId) \/ BeingCancelled(n)

\* C3: every task id has at most one pending trigger, timers and scheduled
\* notifications counted together.
C3_AtMostOneTrigger ==
  \A id \in TaskIds :
    Cardinality(TimersFor(id)) + Cardinality(NotificationsFor(id)) <= 1

\* C4: when the call of the last arm(id, t) has run to its end and no other
\* call for the task is suspended, the task's reminderAt is t; and the step
\* in which the call of a cancel(id) runs to its end leaves reminderAt and
\* reminderHandle null.
C4_ArmThenReminderAt ==
  [][ \A i \in Indices(todos') :
        LET id == todos'[i].id
        IN /\ ( /\ lastReq'[id].op = "arm" /\ lastReq'[id].done
                /\ RequestsFor(Suspended(importing', inflight'), id) = {} )
                => todos'[i].reminderTimestamp = lastReq'[id].at
           /\ ( /\ lastReq'[id].op = "cancel" /\ lastReq'[id].done
                /\ ~(lastReq[id].op = "cancel" /\ lastReq[id].done) )
                => /\ todos'[i].reminderTimestamp = Null
                   /\ todos'[i].notificationId = Null ]_vars

\* C5: when the last request on a task was a cancel made while an arm of the
\* task was suspended, and every call for the task has run to its end, the
\* task is unarmed: reminderAt and reminderHandle are null and nothing is
\* pending for it.
C5_CancelWinsOverLateArm ==
  \A i \in Indices(todos) :
    LET id == todos[i].id
    IN ( /\ lastReq[id] = [op |-> "cancel", at |-> 1, done |-> TRUE]
         /\ Settled(id) )
         => /\ todos[i].reminderTimestamp = Null
            /\ todos[i].notificationId = Null
            /\ Pending(id) = {}

\* C6: a task with a reminderHandle has a reminderAt, and the task of a
\* pending fallback timer that shows a reminderAt has no reminderHandle.
C6_HandleOnlyWithReminderAt ==
  \A i \in Indices(todos) :
    /\ todos[i].notificationId # Null => todos[i].reminderTimestamp # Null
    /\ ( /\ TimersFor(todos[i].id) # {}
         /\ todos[i].reminderTimestamp # Null )
         => todos[i].notificationId = Null

\* on a fresh installation scheduleReminder has armed a task through the
\* platform: the task carries the handle and the instant
C6_Witness ==
  /\ stored.kind = "missing"
  /\ \E i \in Indices(todos) :
       /\ todos[i].notificationId # Null
       /\ todos[i].reminderTimestamp # Null
       /\ \E n \in scheduled : n.nid = todos[i].notificationId

\* C7: on a fresh installation, a task of the list has a reminderAt exactly
\* when a timer is pending or the platform holds a notification for it.
C7_ReminderAtIffPending ==
  \A i \in Indices(todos) :
    (todos[i].reminderTimestamp # Null) <=> (Pending(todos[i].id) # {})

\* C8: when a fallback timer fires, the task is unarmed afterwards:
\* reminderAt and reminderHandle are null and no timer is pending for it.
C8_FiredTimerLeavesTaskUnarmed ==
  [][ \A t \in timers :
        TimerFires(t) =>
          /\ Unarmed(todos', t.todoId)
          /\ { u \in timers' : u.todoId = t.todoId } = {} ]_vars

\* C9: no two tasks of the list share an id, and no task was created with an
\* id that an earlier task had been created with.
C9_IdsUniqueNeverReused ==
  /\ \A i, j \in Indices(todos) : i # j => todos[i].id # todos[j].id
  /\ reusedIds = {}

\* C10: an add whose title is not empty once trimmed makes the list one
\* longer, with the new task at the front and the tasks that were there
\* unchanged behind it in their order; the new task has the trimmed title, is
\* not completed and has no reminderAt and no reminderHandle.
C10_AddPrepends ==
  [][ \A d \in Drafts :
        (handleAddTodo(d) /\ \E k \in 1..Len(d) : d[k] # Space) =>
          /\ Len(todos') = Len(todos) + 1
          /\ Tail(todos') = todos
          /\ TrimmedFrom(Head(todos').title, d)
          /\ Head(todos').completed = FALSE
          /\ Head(todos').reminderTimestamp = Null
          /\ Head(todos').notificationId = Null ]_vars

\* an add of " b " has put its task in front of a task that was there
C10_Witness ==
  /\ Len(todos) >= 2
  /\ todos[1].title = <<"b">>
  /\ todos[2].title # <<"b">>

\* C11: an add whose title is empty or all spaces changes nothing of the
\* list: the same tasks, in the same order, with the same fields.
C11_BlankAddIsNoOp ==
  [][ \A d \in OpsDrafts :
        (handleAddTodo(d) /\ Blank(d)) => todos' = todos ]_vars

\* an add of an empty or all-space title was made on a list of two tasks
C11_Witness ==
  /\ lastOp = "addBlank"
  /\ Len(todos) = 2

\* C12: a commit of an edit whose text is empty or all spaces changes no
\* task and ends the edit, and from the start of the edit on no step has
\* changed the title of a task with the edited id (a task just added in front
\* aside), so the title is the one the task had before the edit began; a
\* commit with any other text gives the tasks with the edited id the trimmed
\* text as title and changes nothing else: completed, the reminder fields,
\* the other tasks and the order stay.
C12_CommitEdit ==
  [][ /\ (saveEdit /\ Blank(editingText)) =>
            todos' = todos /\ editingId' = Null
      /\ editingId' # Null =>
            \A i \in Indices(todos') :
               todos'[i].id = editingId' =>
                 \/ todos'[i].title \in TitlesOf(todos, editingId')
                 \/ i = 1 /\ Len(todos') = Len(todos) + 1
                          /\ Tail(todos') = todos
      /\ (saveEdit /\ ~Blank(editingText)) =>
            /\ Len(todos') = Len(todos)
            /\ \A i \in Indices(todos) :
                 IF todos[i].id = editingId
                 THEN /\ TrimmedFrom(todos'[i].title, editingText)
                      /\ todos'[i] = [todos[i] EXCEPT !.title = todos'[i].title]
                 ELSE todos'[i] = todos[i] ]_vars

\* the edit of a task that carries a reminder was committed with "c " while
\* another task was in the list
C12_Witness ==
  /\ lastOp = "saveEdit"
  /\ Len(todos) = 2
  /\ \E i, j \in Indices(todos) :
       /\ todos[i].title = <<"c">>
       /\ todos[i].reminderTimestamp # Null
       /\ todos[j].title # <<"c">>

\* after is before without its tasks of the given id: the tasks kept are
\* the same objects in the same order
RemovedExactly(before, after, id) ==
  LET kept == { i \in Indices(before) : before[i].id # id }
      nth(k) == CHOOSE i \in kept :
                  Cardinality({ j \in kept : j <= i }) = k
  IN /\ Len(after) = Cardinality(kept)
     /\ \A k \in Indices(after) : after[k] = before[nth(k)]

\* C13: a remove takes the tasks with the given id off the list and keeps
\* every other task, unchanged and in order; a remove of an id that is not in
\* the list (a second remove of the same id) leaves the list as it is.
C13_RemoveExactly ==
  [][ \A id \in TaskIds :
        handleDeleteTodo(id) =>
          /\ RemovedExactly(todos, todos', id)
          /\ ~HasId(todos, id) => todos' = todos ]_vars

\* a remove has left two other tasks in the list
C13_Witness ==
  /\ lastOp = "remove"
  /\ Len(todos) = 2
  /\ todos[1].id # todos[2].id

\* C14: a toggle flips completed of the tasks with the given id and changes
\* nothing else: their title and reminder fields, the other tasks and the
\* order stay, and so do the timers, the scheduled notifications and the
\* reminder calls under way.
C14_ToggleFlipsOnlyCompleted ==
  [][ \A id \in TaskIds :
        toggleComplete(id) =>
          /\ Len(todos') = Len(todos)
          /\ \A i \in Indices(todos) :
               /\ todos'[i].completed = (todos[i].completed # (todos[i].id = id))
               /\ todos'[i].id = todos[i].id
               /\ todos'[i].title = todos[i].title
               /\ todos'[i].reminderTimestamp = todos[i].reminderTimestamp
               /\ todos'[i].notificationId = todos[i].notificationId
          /\ UNCHANGED << webTimers, timers, scheduled, importing, inflight >>
    ]_vars

\* a task whose reminder is armed was toggled to completed, next to another
\* task, and its trigger is still pending
C14_Witness ==
  /\ lastOp = "toggle"
  /\ Len(todos) >= 2
  /\ \E i \in Indices(todos) :
       /\ todos[i].completed
       /\ todos[i].reminderTimestamp # Null
       /\ Pending(todos[i].id) # {}

\* C15: clearCompleted leaves the tasks that are not completed, unchanged and
\* in order, and no reminder of a task it removed stays armed: no timer of it
\* is pending and every notification of it is cancelled or being cancelled.
C15_ClearCompletedCancelsReminders ==
  [][ clearCompleted =>
        /\ todos' = SelectSeq(todos, LAMBDA t : ~t.completed)
        /\ \A i \in Indices(todos) :
             todos[i].completed =>
               /\ { t \in timers' : t.todoId = todos[i].id } = {}
               /\ \A n \in scheduled' :
                    n.todoId = todos[i].id =>
                      \E p \in Suspended(importing', inflight') :
                        p.kind = "clear" /\ p.nid = n.nid ]_vars

\* C16: a press of the set button with texts that are not five integers
\* naming a real day and a real time of the clock raises the message that
\* asks for a correct date and time and changes nothing: not the list, not a
\* timer, not a notification, and no reminder call is started.
C16_UnrealDateRejected ==
  [][ \A id \in TaskIds, dateText \in DateTexts, timeText \in TimeTexts :
        (/\ onPressSet(id, DateParts[dateText], TimeParts[timeText])
         /\ <<dateText, timeText>> \notin RealTexts) =>
          /\ alerted' = "invalid"
          /\ UNCHANGED << todos, webTimers, timers, scheduled, importing,
                          inflight >> ]_vars

\* C17: a press of the set button with a real date and time that is now or
\* earlier raises the message that asks for a time to come and changes
\* nothing: the list, the timers, the notifications and the reminder calls
\* under way stay, so a reminder the task has stays armed.
C17_PastTargetRejected ==
  [][ \A id \in TaskIds, x \in RealTexts :
        (/\ onPressSet(id, DateParts[x[1]], TimeParts[x[2]])
         /\ TargetOf[x] <= now) =>
          /\ alerted' = "past"
          /\ UNCHANGED << todos, webTimers, timers, scheduled, importing,
                          inflight >> ]_vars

\* the button was pressed with a time that is not to come for a task whose
\* reminder is armed, and the reminder is armed still
C17_Witness ==
  /\ lastOp = "setPast"
  /\ alerted = "past"
  /\ \E i \in Indices(todos) :
       /\ todos[i].reminderTimestamp > now
       /\ Pending(todos[i].id) # {}

\* C18: where the notifications module is there and the permission is still
\* refused after the one request, the arm call ends at that point: the
\* permission message is raised, no notification is scheduled and no timer
\* started, and the task's reminderTimestamp and notificationId are null or
\* the clearReminder the call began with is still under way; and when a
\* clearReminder lands, the two fields of its task are null.
C18_RefusedPermissionArmsNothing ==
  [][ /\ \A p \in inflight :
           (ArmPermission(p) /\ permission' # "granted") =>
             /\ alerted' = "permission"
             /\ UNCHANGED << scheduled, timers, webTimers, todos >>
             /\ RequestsFor(ArmsInFlight(Suspended(importing', inflight')),
                             p.todoId)
                  = RequestsFor(ArmsInFlight(Suspended(importing, inflight)),
                                p.todoId) \ {p}
             /\ \/ Unarmed(todos', p.todoId)
                \/ \E q \in Suspended(importing', inflight') :
                     q.kind = "clear" /\ q.todoId = p.todoId
      /\ \A p \in inflight :
           ClearCancelled(p) => Unarmed(todos', p.todoId) ]_vars

\* the task loaded with a handle was given a new time, the permission was
\* refused, and every call has ended: the task has no reminder, the platform
\* holds no notification and no timer is pending
C18_Witness ==
  /\ alerted = "permission"
  /\ permission = "denied"
  /\ stored.kind = "array"
  /\ HasId(todos, 1)
  /\ Unarmed(todos, 1)
  /\ Settled(1)
  /\ scheduled = {}
  /\ timers = {}

\* C19: the load of a process that started after a list was persisted puts
\* that list in memory: the same tasks in the same order, with the same id,
\* title, completed, reminderTimestamp and notificationId.
C19_LoadGivesPersistedList ==
  [][ (Load /\ saved.some) => todos' = saved.list ]_vars

\* C20: once no write to storage is under way, storage holds the
\* serialization of the list in memory.
C20_LastWriteWins ==
  ((PlatformOS = "web" => loaded) /\ writes = {}) => stored = Snapshot(todos)

\* C21: a load of a stored value that is missing, is not parseable, is not an
\* array, or is an array with an element that is not a task leaves the list
\* empty and arms no timer.
C21_UnusableValueIsNoSavedData ==
  [][ (Load /\ stored.kind # "array" /\ todos = << >> /\ timers = {})
        => (todos' = << >> /\ timers' = {}) ]_vars

\* C23: in every environment the load arms a fallback timer for exactly the
\* loaded tasks whose reminderTimestamp is in the future and whose
\* notificationId is null, and every loaded task keeps its
\* reminderTimestamp.
C23_LoadRearmsFallbackTimers ==
  [][ (Load /\ stored.kind = "array" /\ timers = {})
        => \A i \in Indices(stored.list) :
             LET t == stored.list[i]
             IN /\ (\E x \in timers' : x.todoId = t.id /\ x.due = t.reminderTimestamp)
                      <=> /\ t.reminderTimestamp # Null
                          /\ t.reminderTimestamp > now
                          /\ t.notificationId = Null
                /\ \E j \in Indices(todos') :
                     /\ todos'[j].id = t.id
                     /\ todos'[j].reminderTimestamp = t.reminderTimestamp ]_vars

\* C26: when a process starts on a saved list that is not empty, then once
\* the load has run and no write is under way, and before the user does
\* anything, the list in memory and the stored snapshot both are the saved
\* list, however the read and the writes of the start are interleaved.
C26_StartKeepsSavedSnapshot ==
  ( /\ lastOp \in {NoOp, "restart"}
    /\ saved.some /\ saved.list # << >>
    /\ loaded /\ writes = {} )
    => (todos = saved.list /\ stored = Snapshot(saved.list))

\* C27: every task that is in the list when the load completes, added by
\* the user since the process started, is in the list after the load.
C27_LoadKeepsAddedTasks ==
  [][ Load => \A i \in Indices(todos) :
                \E j \in Indices(todos') : todos'[j] = todos[i] ]_vars

\* C24: when the permission query or the schedule call of an arm fails, the
\* arm goes on as without the capability: a fallback timer is pending for
\* the target and the task has reminderTimestamp set to the target with
\* notificationId null.
C24_PlatformFailureFallsBack ==
  [][ \A p \in inflight :
        (ArmFails(p) /\ HasId(todos, p.todoId))
          => /\ \E t \in timers' : t.todoId = p.todoId /\ t.due = p.date
             /\ \A i \in Indices(todos') :
                  todos'[i].id = p.todoId
                    => /\ todos'[i].reminderTimestamp = p.date
                       /\ todos'[i].notificationId = Null ]_vars

C25_PrefillIsNextHalfHour ==
  [][ \A id \in IdsOf(todos) :
        openReminderPicker(id)
          => ReadCivil(reminderDateText', reminderTimeText')
               = NextHalfHour(now) ]_vars
====
